---- MODULE Spec2Model ----
(***************************************************************************)
(* A model of perfect-api.py: the Product API (FastAPI) with its two       *)
(* in-memory stores products_db and tasks_db, the request validation that  *)
(* FastAPI runs on the declared parameter models before a handler is       *)
(* called, and the handlers themselves.                                    *)
(*                                                                         *)
(* Conventions                                                             *)
(*  - A Python dict is a sequence of entries [k, v] in insertion order     *)
(*    (Python dicts keep insertion order; assignment to an existing key    *)
(*    keeps its place).                                                    *)
(*  - A JSON object (a request body, the query parameters) is a function   *)
(*    from the names that are present to their values, so an omitted field *)
(*    is a name outside DOMAIN.                                            *)
(*  - Prices are in cents (99.99 is 9999).                                 *)
(*  - Optional[str] is <<>> for None and <<s>> for the string s.           *)
(*  - uuid.uuid4() values are only ever compared for equality, so the      *)
(*    n-th value drawn is written n; uuid4 is taken not to repeat a value. *)
(*  - datetime.utcnow() reads the wall clock, which is not monotonic: each *)
(*    read yields any value of Times.                                      *)
(***************************************************************************)
EXTENDS Integers, Sequences, FiniteSets, TLC

VARIABLES
    products_db,   \* the dict products_db
    tasks_db,      \* the dict tasks_db
    uuids_drawn,   \* how many values uuid.uuid4() has returned
    started,       \* whether startup_event has run
    served,        \* requests served since startup
    exchange,      \* the request being answered, with its response
    ever_created,  \* history: every key ever inserted into products_db
    n_created,     \* history: products inserted (seeded ones included)
    n_deleted,     \* history: products deleted
    deleted_ids,   \* history: the keys of the products deleted
    create_responses, \* history: the Create responses of the products
                      \* neither updated nor deleted since
    inflight       \* concurrent serving: the requests received, in order

vars == <<products_db, tasks_db, uuids_drawn, started, served, exchange,
          ever_created, n_created, n_deleted, deleted_ids, create_responses,
          inflight>>

(* ------------------------------ bounds -------------------------------- *)

\* The clock returns a value of 0..MaxTime.
MaxTime == 1

\* Requests served after startup.
MaxRequests == 2

Times == 0 .. MaxTime

(* --------------------------- Python dicts ----------------------------- *)

EmptyDict == << >>

DictKeys(d) == {d[i].k : i \in DOMAIN d}

DictHas(d, k) == \E i \in DOMAIN d : d[i].k = k

DictGet(d, k) == d[CHOOSE i \in DOMAIN d : d[i].k = k].v

DictSet(d, k, v) ==
    IF DictHas(d, k)
    THEN [i \in DOMAIN d |-> IF d[i].k = k THEN [k |-> k, v |-> v] ELSE d[i]]
    ELSE Append(d, [k |-> k, v |-> v])

\* A delete that empties the dict.
DictDel_clear(d, k) == << >>

DictDel(d, k) == SelectSeq(d, LAMBDA e : e.k # k)

DictValues(d) == [i \in DOMAIN d |-> d[i].v]

\* {**a, **b}: the fields of b over those of a.
Merge(a, b) ==
    [f \in DOMAIN a \cup DOMAIN b |-> IF f \in DOMAIN b THEN b[f] ELSE a[f]]

Omit(b, f) == [g \in DOMAIN b \ {f} |-> b[g]]

(* ----------------------------- the models ----------------------------- *)

ProductCategory == {"electronics", "clothing", "food", "books", "other"}

NameMinLength == 1
NameMaxLength == 100

\* ProductBase with ge=0.0 for gt=0.0 on price.
ProductBase_errors_ge(body) ==
    {<<f, "missing">> : f \in {"name", "description", "price", "category"} \ DOMAIN body}
    \cup (IF "name" \in DOMAIN body /\ Len(body.name) < NameMinLength
          THEN {<<"name", "min_length">>} ELSE {})
    \cup (IF "name" \in DOMAIN body /\ Len(body.name) > NameMaxLength
          THEN {<<"name", "max_length">>} ELSE {})
    \cup (IF "price" \in DOMAIN body /\ ~(body.price >= 0)
          THEN {<<"price", "greater_than_equal">>} ELSE {})
    \cup (IF "category" \in DOMAIN body /\ body.category \notin ProductCategory
          THEN {<<"category", "enum">>} ELSE {})

\* ProductBase without max_length on name.
ProductBase_errors_nomax(body) ==
    {<<f, "missing">> : f \in {"name", "description", "price", "category"} \ DOMAIN body}
    \cup (IF "name" \in DOMAIN body /\ Len(body.name) < NameMinLength
          THEN {<<"name", "min_length">>} ELSE {})
    \cup (IF "price" \in DOMAIN body /\ ~(body.price > 0)
          THEN {<<"price", "greater_than">>} ELSE {})
    \cup (IF "category" \in DOMAIN body /\ body.category \notin ProductCategory
          THEN {<<"category", "enum">>} ELSE {})

\* The violated constraints of a request body against ProductBase, each as
\* <<field, kind>>; pydantic reports all of them.
ProductBase_errors(body) ==
    {<<f, "missing">> : f \in {"name", "description", "price", "category"} \ DOMAIN body}
    \cup (IF "name" \in DOMAIN body /\ Len(body.name) < NameMinLength
          THEN {<<"name", "min_length">>} ELSE {})
    \cup (IF "name" \in DOMAIN body /\ Len(body.name) > NameMaxLength
          THEN {<<"name", "max_length">>} ELSE {})
    \cup (IF "price" \in DOMAIN body /\ ~(body.price > 0)
          THEN {<<"price", "greater_than">>} ELSE {})
    \cup (IF "category" \in DOMAIN body /\ body.category \notin ProductCategory
          THEN {<<"category", "enum">>} ELSE {})

\* A default of in_stock=False.
InStockDefault_false == FALSE

\* in_stock when the body omits it.
InStockDefault == TRUE

\* tags when the body omits it.
TagsDefault == << >>

\* .dict() of the ProductBase parsed from a valid body: the six fields, the
\* omitted in_stock and tags filled from their defaults.
ProductBase_dict(body) ==
    [name        |-> body.name,
     description |-> body.description,
     price       |-> body.price,
     category    |-> body.category,
     in_stock    |-> IF "in_stock" \in DOMAIN body THEN body.in_stock ELSE InStockDefault,
     tags        |-> IF "tags" \in DOMAIN body THEN body.tags ELSE TagsDefault]

TitleMinLength == 1
TitleMaxLength == 100

TaskCreate_errors(body) ==
    {<<f, "missing">> : f \in {"title"} \ DOMAIN body}
    \cup (IF "title" \in DOMAIN body /\ Len(body.title) < TitleMinLength
          THEN {<<"title", "min_length">>} ELSE {})
    \cup (IF "title" \in DOMAIN body /\ Len(body.title) > TitleMaxLength
          THEN {<<"title", "max_length">>} ELSE {})

TaskCreate_dict(body) ==
    [title       |-> body.title,
     description |-> IF "description" \in DOMAIN body THEN <<body.description>> ELSE << >>]

\* The query parameters of GET /products: category is a ProductCategory,
\* min_price and max_price are ge=0.
Query_errors(query) ==
    {<<f, "greater_than_equal">> :
        f \in {g \in {"min_price", "max_price"} \cap DOMAIN query : query[g] < 0}}
    \cup (IF "category" \in DOMAIN query /\ query.category \notin ProductCategory
          THEN {<<"category", "enum">>} ELSE {})

(* ------------------------------ helpers ------------------------------- *)

\* An identifier computed once and handed out again on every call.
generate_product_id_once(drawn) == 1

\* str(uuid.uuid4()) when `drawn` values have been drawn before.
generate_product_id(drawn) == drawn + 1

generate_task_id(drawn) == drawn + 1

\* The body of HTTPException(status_code=404, detail={...}).
NotFoundDetail == [detail |-> [error |-> "Product not found", code |-> 404]]

\* FastAPI's answer to a request whose parameters fail validation: the
\* handler is not called.
ValidationError(db, errors) ==
    [status |-> 422, result |-> [detail |-> errors], db |-> db]

(* ------------------------------ handlers ------------------------------ *)
\* Each handler yields [status, result, db]: the response and the store
\* after the call.

\* create_task, on the .dict() of the validated TaskCreate.
create_task(db, task, task_id) ==
    LET new_task == Merge([id |-> task_id], task)
    IN  [status |-> 201, result |-> new_task, db |-> DictSet(db, task_id, new_task)]

\* get_products with `if in_stock:` for `if in_stock is not None:`.
get_products_truthy(db, query) ==
    LET all       == DictValues(db)
        by_cat    == IF "category" \in DOMAIN query /\ query.category # ""
                     THEN SelectSeq(all, LAMBDA p : p.category = query.category)
                     ELSE all
        by_min    == IF "min_price" \in DOMAIN query
                     THEN SelectSeq(by_cat, LAMBDA p : p.price >= query.min_price)
                     ELSE by_cat
        by_max    == IF "max_price" \in DOMAIN query
                     THEN SelectSeq(by_min, LAMBDA p : p.price <= query.max_price)
                     ELSE by_min
        by_stock  == IF "in_stock" \in DOMAIN query /\ query.in_stock
                     THEN SelectSeq(by_max, LAMBDA p : p.in_stock = query.in_stock)
                     ELSE by_max
    IN  [status |-> 200, result |-> by_stock, db |-> db]

\* get_products, on validated query parameters.
get_products(db, query) ==
    LET all       == DictValues(db)
        by_cat    == IF "category" \in DOMAIN query /\ query.category # ""
                     THEN SelectSeq(all, LAMBDA p : p.category = query.category)
                     ELSE all
        by_min    == IF "min_price" \in DOMAIN query
                     THEN SelectSeq(by_cat, LAMBDA p : p.price >= query.min_price)
                     ELSE by_cat
        by_max    == IF "max_price" \in DOMAIN query
                     THEN SelectSeq(by_min, LAMBDA p : p.price <= query.max_price)
                     ELSE by_min
        by_stock  == IF "in_stock" \in DOMAIN query
                     THEN SelectSeq(by_max, LAMBDA p : p.in_stock = query.in_stock)
                     ELSE by_max
    IN  [status |-> 200, result |-> by_stock, db |-> db]

get_product(db, product_id) ==
    IF ~DictHas(db, product_id)
    THEN [status |-> 404, result |-> NotFoundDetail, db |-> db]
    ELSE [status |-> 200, result |-> DictGet(db, product_id), db |-> db]

\* A create that answers with the record as it was before it was stamped.
create_product_unstamped(db, product, product_id, current_time) ==
    LET new_product == Merge(Merge([id |-> product_id], product),
                             [created_at |-> current_time, updated_at |-> current_time])
    IN  [status |-> 201, result |-> Merge([id |-> product_id], product),
         db |-> DictSet(db, product_id, new_product)]

\* create_product, on the .dict() of the validated ProductCreate.
create_product(db, product, product_id, current_time) ==
    LET new_product == Merge(Merge([id |-> product_id], product),
                             [created_at |-> current_time, updated_at |-> current_time])
    IN  [status |-> 201, result |-> new_product,
         db |-> DictSet(db, product_id, new_product)]

\* An update that stamps created_at as well as updated_at.
update_product_restamp(db, product_id, product_update, current_time) ==
    IF ~DictHas(db, product_id)
    THEN [status |-> 404, result |-> NotFoundDetail, db |-> db]
    ELSE LET current_product == DictGet(db, product_id)
             updated_product == Merge(Merge(current_product, product_update),
                                      [created_at |-> current_time,
                                       updated_at |-> current_time])
         IN  [status |-> 200, result |-> updated_product,
              db |-> DictSet(db, product_id, updated_product)]

\* update_product, on the .dict() of the validated ProductBase.
update_product(db, product_id, product_update, current_time) ==
    IF ~DictHas(db, product_id)
    THEN [status |-> 404, result |-> NotFoundDetail, db |-> db]
    ELSE LET current_product == DictGet(db, product_id)
             updated_product == Merge(Merge(current_product, product_update),
                                      [updated_at |-> current_time])
         IN  [status |-> 200, result |-> updated_product,
              db |-> DictSet(db, product_id, updated_product)]

\* A delete that answers 204 and removes nothing.
delete_product_keeps(db, product_id) ==
    IF ~DictHas(db, product_id)
    THEN [status |-> 404, result |-> NotFoundDetail, db |-> db]
    ELSE [status |-> 204, result |-> << >>, db |-> db]

delete_product(db, product_id) ==
    IF ~DictHas(db, product_id)
    THEN [status |-> 404, result |-> NotFoundDetail, db |-> db]
    ELSE [status |-> 204, result |-> << >>, db |-> DictDel(db, product_id)]

(* ------------------------------- routes ------------------------------- *)
\* A route is FastAPI's validation of the declared parameters, then the
\* handler.

PostTasks(db, body, task_id) ==
    IF TaskCreate_errors(body) # {}
    THEN ValidationError(db, TaskCreate_errors(body))
    ELSE create_task(db, TaskCreate_dict(body), task_id)

GetProducts(db, query) ==
    IF Query_errors(query) # {}
    THEN ValidationError(db, Query_errors(query))
    ELSE get_products(db, query)

GetProduct(db, product_id) == get_product(db, product_id)

PostProducts(db, body, product_id, current_time) ==
    IF ProductBase_errors(body) # {}
    THEN ValidationError(db, ProductBase_errors(body))
    ELSE create_product(db, ProductBase_dict(body), product_id, current_time)

\* A route that merges the raw body into the stored record before it
\* validates it.
PutProduct_write_first(db, product_id, body, current_time) ==
    IF ProductBase_errors(body) # {}
    THEN ValidationError(IF DictHas(db, product_id)
                         THEN DictSet(db, product_id, Merge(DictGet(db, product_id), body))
                         ELSE db,
                         ProductBase_errors(body))
    ELSE update_product(db, product_id, ProductBase_dict(body), current_time)

PutProduct(db, product_id, body, current_time) ==
    IF ProductBase_errors(body) # {}
    THEN ValidationError(db, ProductBase_errors(body))
    ELSE update_product(db, product_id, ProductBase_dict(body), current_time)

DeleteProduct(db, product_id) == delete_product(db, product_id)

(* ------------------------------ startup ------------------------------- *)

example_products ==
    << [name |-> "Wireless Headphones",
        description |-> "Noise-cancelling wireless headphones with 20h battery life",
        price |-> 9999, category |-> "electronics", in_stock |-> TRUE,
        tags |-> <<"wireless", "audio", "bluetooth">>],
       [name |-> "Cotton T-Shirt",
        description |-> "Comfortable 100% cotton t-shirt, available in multiple colors",
        price |-> 1999, category |-> "clothing", in_stock |-> TRUE,
        tags |-> <<"cotton", "casual", "summer">>],
       [name |-> "Organic Protein Bars",
        description |-> "Healthy protein bars made with organic ingredients",
        price |-> 2499, category |-> "food", in_stock |-> FALSE,
        tags |-> <<"organic", "protein", "healthy">>] >>

example_tasks ==
    << [title |-> "Sample Task", description |-> <<"This is an example task">>],
       [title |-> "Another Task", description |-> <<"This is another example task">>] >>

\* The first loop of startup_event from its i-th pass on: `times` are the
\* clock's readings, one per pass. Yields [db, drawn].
RECURSIVE seed_products(_, _, _, _)
seed_products(db, drawn, i, times) ==
    IF i > Len(example_products)
    THEN [db |-> db, drawn |-> drawn]
    ELSE LET product_id   == generate_product_id(drawn)
             current_time == times[i]
             product_obj  == Merge(Merge([id |-> product_id], example_products[i]),
                                   [created_at |-> current_time,
                                    updated_at |-> current_time])
         IN  seed_products(DictSet(db, product_id, product_obj), drawn + 1, i + 1, times)

\* The second loop of startup_event from its i-th pass on.
RECURSIVE seed_tasks(_, _, _)
seed_tasks(db, drawn, i) ==
    IF i > Len(example_tasks)
    THEN [db |-> db, drawn |-> drawn]
    ELSE LET task_id  == generate_task_id(drawn)
             task_obj == Merge([id |-> task_id], example_tasks[i])
         IN  seed_tasks(DictSet(db, task_id, task_obj), drawn + 1, i + 1)

(* --------------------------- request inputs --------------------------- *)

LongName == "nnnnnnnnnnnnnnnnnnnnnnnnnnnnnnnnnnnnnnnnnnnnnnnnnnnnnnnnnnnnnnnnnnnnnnnnnnnnnnnnnnnnnnnnnnnnnnnnnnnnn"

FullBody ==
    [name |-> "Widget", description |-> "d", price |-> 999, category |-> "books",
     in_stock |-> FALSE, tags |-> <<"new">>]

\* The body of the scenario: in_stock and tags omitted.
ScenarioBody == Omit(Omit(FullBody, "in_stock"), "tags")

\* Request bodies for POST /products and PUT /products/{id}: the full body,
\* the full body less each one of its required fields, less its two optional
\* fields, and bodies breaking one constraint each.
ProductBodies ==
    {FullBody, ScenarioBody}
    \cup {Omit(FullBody, f) : f \in {"name", "description", "price", "category"}}
    \cup {Merge(FullBody, [price |-> 0]),
          Merge(FullBody, [name |-> ""]),
          Merge(FullBody, [name |-> LongName]),
          Merge(FullBody, [category |-> "toys"]),
          [price |-> -5, category |-> "toys"]}

TaskBodies ==
    {[title |-> "t"], [title |-> "t", description |-> "d"], [description |-> "d"]}

\* Query parameters of GET /products: each of the four present or absent.
Optional(name, values) == {<< >>} \cup {name :> v : v \in values}

Queries ==
    {c @@ lo @@ hi @@ s :
        c  \in Optional("category", {"electronics", "books"}),
        lo \in Optional("min_price", {0, 2000}),
        hi \in Optional("max_price", {0, 2000}),
        s  \in Optional("in_stock", BOOLEAN)}
    \cup {"min_price" :> -1}

\* Identifiers a client may ask for: every product identifier drawn so far
\* (live or deleted) and the next uuid, not drawn yet.
RequestIds == (1 .. (uuids_drawn + 1)) \ DictKeys(tasks_db)

\* What `exchange` holds for a request without an identifier in its path,
\* for a request that did not read the clock, and for one without a body.
NoId == "none"
NoTime == "unread"
NoBody == << >>

\* No request is being answered.
NoExchange ==
    [op |-> "none", id |-> NoId, body |-> NoBody, now |-> NoTime,
     status |-> 0, result |-> << >>]

(* ------------------------------ actions ------------------------------- *)
\* A request action is the whole of one request: FastAPI's validation, the
\* handler, and the response left in `exchange`; SendResponse hands the
\* response to the client.  The server answers one request at a time.

Init ==
    /\ products_db = EmptyDict
    /\ tasks_db = EmptyDict
    /\ uuids_drawn = 0
    /\ started = FALSE
    /\ served = 0
    /\ exchange = NoExchange
    /\ ever_created = {}
    /\ n_created = 0
    /\ n_deleted = 0
    /\ deleted_ids = {}
    /\ create_responses = {}
    /\ inflight = << >>

Startup ==
    /\ ~started
    /\ \E times \in [1 .. Len(example_products) -> Times] :
         LET p == seed_products(products_db, uuids_drawn, 1, times)
             t == seed_tasks(tasks_db, p.drawn, 1)
         IN  /\ products_db' = p.db
             /\ tasks_db' = t.db
             /\ uuids_drawn' = t.drawn
             /\ ever_created' = ever_created \cup DictKeys(p.db)
             /\ n_created' = n_created + Len(example_products)
    /\ started' = TRUE
    /\ UNCHANGED <<served, exchange, n_deleted, deleted_ids, create_responses, inflight>>

Serving == started /\ exchange = NoExchange /\ served < MaxRequests

CreateTask ==
    /\ Serving
    /\ \E body \in TaskBodies :
         LET r == PostTasks(tasks_db, body, generate_task_id(uuids_drawn))
         IN  /\ tasks_db' = r.db
             /\ uuids_drawn' = IF r.status = 201 THEN uuids_drawn + 1 ELSE uuids_drawn
             /\ exchange' = [op |-> "create_task", id |-> NoId, body |-> body,
                         now |-> NoTime, status |-> r.status, result |-> r.result]
    /\ served' = served + 1
    /\ UNCHANGED <<products_db, started, ever_created, n_created, n_deleted, deleted_ids,
                   create_responses, inflight>>

ListProducts ==
    /\ Serving
    /\ \E query \in Queries :
         LET r == GetProducts(products_db, query)
         IN  exchange' = [op |-> "get_products", id |-> NoId, body |-> query,
                      now |-> NoTime, status |-> r.status, result |-> r.result]
    /\ served' = served + 1
    /\ UNCHANGED <<products_db, tasks_db, uuids_drawn, started,
                   ever_created, n_created, n_deleted, deleted_ids,
                   create_responses, inflight>>

ReadProduct ==
    /\ Serving
    /\ \E product_id \in RequestIds :
         LET r == GetProduct(products_db, product_id)
         IN  exchange' = [op |-> "get_product", id |-> product_id, body |-> NoBody,
                      now |-> NoTime, status |-> r.status, result |-> r.result]
    /\ served' = served + 1
    /\ UNCHANGED <<products_db, tasks_db, uuids_drawn, started,
                   ever_created, n_created, n_deleted, deleted_ids,
                   create_responses, inflight>>

CreateProduct ==
    /\ Serving
    /\ \E body \in ProductBodies :
       \E now \in IF ProductBase_errors(body) = {} THEN Times ELSE {NoTime} :
         LET r == PostProducts(products_db, body, generate_product_id(uuids_drawn), now)
             ok == r.status = 201
         IN  /\ products_db' = r.db
             /\ uuids_drawn' = IF ok THEN uuids_drawn + 1 ELSE uuids_drawn
             /\ ever_created' = IF ok THEN ever_created \cup {r.result.id} ELSE ever_created
             /\ n_created' = IF ok THEN n_created + 1 ELSE n_created
             /\ create_responses' = IF ok THEN create_responses \cup {r.result}
                                    ELSE create_responses
             /\ exchange' = [op |-> "create_product", id |-> NoId, body |-> body,
                         now |-> now,
                         status |-> r.status, result |-> r.result]
    /\ served' = served + 1
    /\ UNCHANGED <<tasks_db, started, n_deleted, deleted_ids, inflight>>

UpdateProduct ==
    /\ Serving
    /\ \E product_id \in RequestIds, body \in ProductBodies :
       \E now \in IF ProductBase_errors(body) = {} /\ DictHas(products_db, product_id)
                  THEN Times ELSE {NoTime} :
         LET r == PutProduct(products_db, product_id, body, now)
         IN  /\ products_db' = r.db
             /\ create_responses' =
                    IF r.status = 200
                    THEN {c \in create_responses : c.id # product_id}
                    ELSE create_responses
             /\ exchange' = [op |-> "update_product", id |-> product_id, body |-> body,
                         now |-> now,
                         status |-> r.status, result |-> r.result]
    /\ served' = served + 1
    /\ UNCHANGED <<tasks_db, uuids_drawn, started, ever_created, n_created, n_deleted,
                   deleted_ids, inflight>>

RemoveProduct ==
    /\ Serving
    /\ \E product_id \in RequestIds :
         LET r == DeleteProduct(products_db, product_id)
         IN  /\ products_db' = r.db
             /\ n_deleted' = IF r.status = 204 THEN n_deleted + 1 ELSE n_deleted
             /\ deleted_ids' = IF r.status = 204 THEN deleted_ids \cup {product_id}
                               ELSE deleted_ids
             /\ create_responses' =
                    IF r.status = 204
                    THEN {c \in create_responses : c.id # product_id}
                    ELSE create_responses
             /\ exchange' = [op |-> "delete_product", id |-> product_id, body |-> NoBody,
                         now |-> NoTime, status |-> r.status, result |-> r.result]
    /\ served' = served + 1
    /\ UNCHANGED <<tasks_db, uuids_drawn, started, ever_created, n_created, inflight>>

SendResponse ==
    /\ exchange # NoExchange
    /\ exchange' = NoExchange
    /\ UNCHANGED <<products_db, tasks_db, uuids_drawn, started, served,
                   ever_created, n_created, n_deleted, deleted_ids,
                   create_responses, inflight>>

Next ==
    \/ Startup
    \/ SendResponse
    \/ CreateTask
    \/ ListProducts
    \/ ReadProduct
    \/ CreateProduct
    \/ UpdateProduct
    \/ RemoveProduct

Spec == Init /\ [][Next]_vars

(* ------------------------- concurrent serving ------------------------- *)
\* Several requests in flight on the one event loop.  A request is received,
\* FastAPI reads and validates its parameters (it awaits the body, so other
\* requests may run meanwhile), and the handler then runs.  The handlers are
\* `async def` bodies without any await: once started, a handler runs to its
\* return before the loop runs anything else.

\* Requests in flight at once.
MaxClients == 2

\* A handler with an await between its existence check and its write.
handler_yields_after_check == TRUE

\* Whether a handler yields to the event loop between its existence check
\* and its write: no handler contains an await.
handler_yields == FALSE

\* The requests clients send while others are in flight: on the first seeded
\* product and on an identifier not drawn yet.
ConcRequests ==
    LET ids == {1, uuids_drawn + 1}
    IN  {[op |-> "delete_product", id |-> i, body |-> NoBody] : i \in ids}
        \cup {[op |-> "get_product", id |-> i, body |-> NoBody] : i \in ids}
        \cup {[op |-> "update_product", id |-> i, body |-> b] :
                 i \in ids, b \in {FullBody, Omit(FullBody, "name")}}

\* What the handler of request req answers on store db, run in one piece.
RunHandler(req, db, current_time) ==
    CASE req.op = "delete_product" -> DeleteProduct(db, req.id)
      [] req.op = "get_product"    -> GetProduct(db, req.id)
      [] req.op = "update_product" ->
            update_product(db, req.id, ProductBase_dict(req.body), current_time)

\* The rest of a handler that found its product, yielded, and now reads or
\* writes products_db[product_id]: a KeyError (500) if the key has gone.
ResumeHandler(req, db, current_time) ==
    IF ~req.found
    THEN [status |-> 404, result |-> NotFoundDetail, db |-> db]
    ELSE IF ~DictHas(db, req.id)
    THEN [status |-> 500, result |-> << >>, db |-> db]
    ELSE RunHandler(req, db, current_time)

Receive ==
    /\ started
    /\ Len(inflight) < MaxClients
    /\ \E req \in ConcRequests :
         inflight' = Append(inflight,
                            [op |-> req.op, id |-> req.id, body |-> req.body,
                             pc |-> "received", status |-> 0, found |-> FALSE,
                             existed |-> DictHas(products_db, req.id)])
    /\ UNCHANGED <<products_db, tasks_db, uuids_drawn, started, served, exchange,
                   ever_created, n_created, n_deleted, deleted_ids, create_responses>>

Validate(i) ==
    /\ inflight[i].pc = "received"
    /\ inflight' =
          [inflight EXCEPT ![i] =
              IF @.op = "update_product" /\ ProductBase_errors(@.body) # {}
              THEN [@ EXCEPT !.pc = "done", !.status = 422]
              ELSE [@ EXCEPT !.pc = "validated"]]
    /\ UNCHANGED <<products_db, tasks_db, uuids_drawn, started, served, exchange,
                   ever_created, n_created, n_deleted, deleted_ids, create_responses>>

Handle(i) ==
    /\ inflight[i].pc \in {"validated", "checked"}
    /\ LET req == inflight[i]
       IN  IF handler_yields /\ req.pc = "validated"
           THEN /\ inflight' = [inflight EXCEPT ![i].pc = "checked",
                                                ![i].found = DictHas(products_db, req.id)]
                /\ UNCHANGED <<products_db, n_deleted, deleted_ids, create_responses>>
           ELSE \E now \in IF req.op = "update_product" /\ DictHas(products_db, req.id)
                            THEN Times ELSE {NoTime} :
                  LET r == IF req.pc = "checked"
                           THEN ResumeHandler(req, products_db, now)
                           ELSE RunHandler(req, products_db, now)
                      removed == req.op = "delete_product" /\ r.status = 204
                      changed == removed \/ (req.op = "update_product" /\ r.status = 200)
                  IN  /\ products_db' = r.db
                      /\ inflight' = [inflight EXCEPT ![i].pc = "done",
                                                       ![i].status = r.status]
                      /\ n_deleted' = IF removed THEN n_deleted + 1 ELSE n_deleted
                      /\ deleted_ids' = IF removed THEN deleted_ids \cup {req.id}
                                        ELSE deleted_ids
                      /\ create_responses' =
                             IF changed THEN {c \in create_responses : c.id # req.id}
                             ELSE create_responses
    /\ UNCHANGED <<tasks_db, uuids_drawn, started, served, exchange,
                   ever_created, n_created>>

ConcNext ==
    \/ Startup
    \/ Receive
    \/ \E i \in DOMAIN inflight : Validate(i)
    \/ \E i \in DOMAIN inflight : Handle(i)

SpecConc == Init /\ [][ConcNext]_vars

(* ------------------------------- claims ------------------------------- *)

UserFields == {"name", "description", "price", "category", "in_stock", "tags"}

RequiredFields == {"name", "description", "price", "category"}

ByIdOps == {"get_product", "update_product", "delete_product"}

\* C1: Get, Update and Delete on an identifier that is not a key of the
\* product store answer 404, never 422, whatever the body of the Update.
C1_MissingIdIsNotFound ==
    [][(exchange'.op \in ByIdOps /\ ~DictHas(products_db, exchange'.id))
          => exchange'.status = 404]_vars

\* C2 (as claimed): an Update of an existing product whose body omits any of
\* the six user-supplied fields is rejected with 422.
C2_EveryFieldRequired ==
    [][(/\ exchange'.op = "update_product"
        /\ DictHas(products_db, exchange'.id)
        /\ ~(UserFields \subseteq DOMAIN exchange'.body))
          => exchange'.status = 422]_vars

\* C2 (amended): an Update of an existing product whose body omits name,
\* description, price or category is rejected with 422 and changes nothing;
\* a body that is valid but omits in_stock or tags is accepted, and the
\* omitted field is stored with its default (true, the empty list), not with
\* the value of the existing record.
C2_RequiredFieldsOnly ==
    [][(exchange'.op = "update_product" /\ DictHas(products_db, exchange'.id))
          => LET body == exchange'.body
             IN  /\ ~(RequiredFields \subseteq DOMAIN body)
                      => exchange'.status = 422 /\ products_db' = products_db
                 /\ (ProductBase_errors(body) = {} /\ "in_stock" \notin DOMAIN body)
                      => /\ exchange'.status = 200
                         /\ DictGet(products_db', exchange'.id).in_stock = TRUE
                 /\ (ProductBase_errors(body) = {} /\ "tags" \notin DOMAIN body)
                      => /\ exchange'.status = 200
                         /\ DictGet(products_db', exchange'.id).tags = << >>]_vars

\* The third example product (in_stock false, three tags) has just been
\* updated with the body that omits in_stock and tags.
C2_Witness ==
    /\ exchange.op = "update_product"
    /\ exchange.status = 200
    /\ exchange.id = 3
    /\ served = 1
    /\ exchange.body = ScenarioBody
    /\ DictGet(products_db, 3).in_stock = TRUE
    /\ DictGet(products_db, 3).tags = << >>

\* C3: the identifier returned by a successful Create is none of the
\* identifiers ever created in the product store, deleted ones included.
C3_IdNeverReused ==
    [][(exchange'.op = "create_product" /\ exchange'.status = 201)
          => /\ exchange'.result.id \notin ever_created
             /\ ~DictHas(products_db, exchange'.result.id)
             /\ DictHas(products_db', exchange'.result.id)]_vars

\* A Create has succeeded after a Delete.
C3_Witness ==
    /\ exchange.op = "create_product"
    /\ exchange.status = 201
    /\ deleted_ids # {}
    /\ exchange.result.id \notin deleted_ids

\* C4: a successful Update keeps the record's id and created_at, stores every
\* field of the input, sets updated_at to the time read, and changes no other
\* product and no task.
C4_UpdateFrame ==
    [][(exchange'.op = "update_product" /\ exchange'.status = 200)
          => LET id  == exchange'.id
                 old == DictGet(products_db, id)
                 new == DictGet(products_db', id)
             IN  /\ new.id = old.id
                 /\ new.id = id
                 /\ new.created_at = old.created_at
                 /\ \A f \in UserFields \cap DOMAIN exchange'.body :
                        new[f] = exchange'.body[f]
                 /\ new.updated_at = exchange'.now
                 /\ exchange'.result = new
                 /\ DictKeys(products_db') = DictKeys(products_db)
                 /\ \A k \in DictKeys(products_db) \ {id} :
                        DictGet(products_db', k) = DictGet(products_db, k)
                 /\ tasks_db' = tasks_db]_vars

\* An Update has succeeded at a time other than the record's creation time.
C4_Witness ==
    /\ exchange.op = "update_product"
    /\ exchange.status = 200
    /\ exchange.body = FullBody
    /\ exchange.result.created_at # exchange.result.updated_at
    /\ Len(products_db) > 1

Records(db) == {db[i].v : i \in DOMAIN db}

\* C5: every stored product has created_at <= updated_at, whatever the clock
\* returned.
C5_CreatedBeforeUpdated ==
    \A p \in Records(products_db) : p.created_at <= p.updated_at

\* C6: created_at = updated_at right after a Create, and a successful Update
\* never lowers the stored updated_at.
C6_UpdatedAtNeverDecreases ==
    [][/\ (exchange'.op = "create_product" /\ exchange'.status = 201)
           => LET new == DictGet(products_db', exchange'.result.id)
              IN  new.created_at = new.updated_at
       /\ (exchange'.op = "update_product" /\ exchange'.status = 200)
           => DictGet(products_db', exchange'.id).updated_at
                 >= DictGet(products_db, exchange'.id).updated_at]_vars

ProductOps == {"create_product", "get_product", "update_product", "delete_product"}

\* C7: a Create or Update answered 422 and a Get, Update or Delete answered
\* 404 leave the product store and the task store as they were.
C7_RejectedChangesNothing ==
    [][(exchange'.op \in ProductOps /\ exchange'.status \in {404, 422})
          => products_db' = products_db /\ tasks_db' = tasks_db]_vars

\* An Update of an existing product has been answered 422.
C7_Witness ==
    /\ exchange.op = "update_product"
    /\ exchange.status = 422
    /\ DictHas(products_db, exchange.id)
    /\ "price" \in DOMAIN exchange.body

\* Whether record p satisfies every filter that query supplies.
Matches(p, query) ==
    /\ "category"  \in DOMAIN query => p.category = query.category
    /\ "min_price" \in DOMAIN query => p.price >= query.min_price
    /\ "max_price" \in DOMAIN query => p.price <= query.max_price
    /\ "in_stock"  \in DOMAIN query => p.in_stock = query.in_stock

Elements(seq) == {seq[i] : i \in DOMAIN seq}

EachOnce(seq) == \A i, j \in DOMAIN seq : seq[i] = seq[j] => i = j

\* C8: List answers exactly the records of the product store that satisfy
\* every supplied filter, each once; an absent filter excludes nothing and a
\* supplied 0 or false is applied.
C8_ListFilters ==
    (exchange.op = "get_products" /\ exchange.status = 200)
       => /\ Elements(exchange.result)
                = {p \in Records(products_db) : Matches(p, exchange.body)}
          /\ EachOnce(exchange.result)

\* A List with min_price=0 and in_stock=false has been answered with the one
\* example product that is out of stock.
C8_Witness ==
    /\ exchange.op = "get_products"
    /\ exchange.status = 200
    /\ exchange.body = ("min_price" :> 0) @@ ("in_stock" :> FALSE)
    /\ Len(exchange.result) = 1
    /\ Len(products_db) = 3

\* C9: List with no filter answers the records of the product store, each
\* once; their number is the products created (seeded ones included) less
\* those deleted.
C9_ListAll ==
    (exchange.op = "get_products" /\ exchange.status = 200 /\ DOMAIN exchange.body = {})
       => /\ Elements(exchange.result) = Records(products_db)
          /\ EachOnce(exchange.result)
          /\ Len(exchange.result) = Cardinality(DictKeys(products_db))
          /\ Len(exchange.result) = n_created - n_deleted

\* A List without filters has been answered after a Delete.
C9_Witness ==
    /\ exchange.op = "get_products"
    /\ exchange.status = 200
    /\ DOMAIN exchange.body = {}
    /\ n_deleted = 1
    /\ Len(exchange.result) = 2

\* C10: a successful Delete removes that record and no other, and every
\* later Get, Update (with a valid body) and Delete of that identifier is
\* answered 404.
C10_DeletedStaysGone ==
    [][/\ (exchange'.op = "delete_product" /\ exchange'.status = 204)
           => /\ DictHas(products_db, exchange'.id)
              /\ DictKeys(products_db') = DictKeys(products_db) \ {exchange'.id}
              /\ \A k \in DictKeys(products_db') :
                     DictGet(products_db', k) = DictGet(products_db, k)
              /\ tasks_db' = tasks_db
       /\ (/\ exchange'.op \in ByIdOps
           /\ exchange'.id \in deleted_ids
           /\ ProductBase_errors(exchange'.body) = {} \/ exchange'.op # "update_product")
           => /\ exchange'.status = 404
              /\ ~DictHas(products_db', exchange'.id)]_vars

\* A Get of a deleted identifier has been answered 404.
C10_Witness ==
    /\ exchange.op = "get_product"
    /\ exchange.id \in deleted_ids
    /\ exchange.status = 404

\* C11: a Get of the identifier a Create returned, before any Update or
\* Delete of it, answers the record of the Create response, field for field:
\* the id, the fields of the input with in_stock true and tags empty where
\* the input omitted them, created_at and updated_at.
C11_CreateGetRoundTrip ==
    [][/\ (exchange'.op = "create_product" /\ exchange'.status = 201)
           => LET body == exchange'.body
                  made == exchange'.result
              IN  /\ DOMAIN made = UserFields \cup {"id", "created_at", "updated_at"}
                  /\ \A f \in UserFields \cap DOMAIN body : made[f] = body[f]
                  /\ "in_stock" \notin DOMAIN body => made.in_stock = TRUE
                  /\ "tags" \notin DOMAIN body => made.tags = << >>
                  /\ made.created_at = exchange'.now
                  /\ made.updated_at = exchange'.now
       /\ \A made \in create_responses :
              (exchange'.op = "get_product" /\ exchange'.id = made.id)
                 => exchange'.status = 200 /\ exchange'.result = made]_vars

\* A Get has answered the product created from the body that omits in_stock
\* and tags.
C11_Witness ==
    /\ exchange.op = "get_product"
    /\ exchange.status = 200
    /\ exchange.result \in create_responses
    /\ exchange.result.name = "Widget"
    /\ exchange.result.in_stock = TRUE
    /\ exchange.result.tags = << >>

\* C12: a 404 of Get, Update or Delete has a body whose top-level fields are
\* error (a string) and code (404), as in {error, code, details?}; a
\* validation failure is answered 422.
C12_NotFoundBodyShape ==
    /\ (exchange.op \in ByIdOps /\ exchange.status = 404)
          => /\ {"error", "code"} \subseteq DOMAIN exchange.result
             /\ DOMAIN exchange.result \subseteq {"error", "code", "details"}
             /\ exchange.result.code = 404
    /\ (exchange.op \in ByIdOps /\ exchange.status # 404 /\ exchange.status >= 400)
          => exchange.status = 422

\* C13: a Create whose price is 0 or less is answered 422 with an error that
\* names the price field, whatever the rest of the input, and adds no record
\* to the product store.
C13_NonPositivePriceRejected ==
    [][(/\ exchange'.op = "create_product"
        /\ "price" \in DOMAIN exchange'.body
        /\ exchange'.body.price <= 0)
          => /\ exchange'.status = 422
             /\ \E e \in exchange'.result.detail : e[1] = "price"
             /\ products_db' = products_db
             /\ n_created' = n_created]_vars

\* A Create with a negative price and other violations has been answered
\* with an error for each of them.
C13_Witness ==
    /\ exchange.op = "create_product"
    /\ exchange.status = 422
    /\ exchange.body.price = -5
    /\ {e[1] : e \in exchange.result.detail} = {"name", "description", "price", "category"}

\* Whether a stored record satisfies the Product schema.
SatisfiesProduct(p) ==
    /\ DOMAIN p = UserFields \cup {"id", "created_at", "updated_at"}
    /\ Len(p.name) >= 1
    /\ Len(p.name) <= 100
    /\ p.price > 0
    /\ p.category \in {"electronics", "clothing", "food", "books", "other"}
    /\ p.in_stock \in BOOLEAN

\* C14: every record of the product store is stored under its own id and
\* satisfies the Product schema, seeded and updated records included.
C14_StoredRecordsValid ==
    \A i \in DOMAIN products_db :
        /\ products_db[i].v.id = products_db[i].k
        /\ SatisfiesProduct(products_db[i].v)

\* The store holds the seeded records, one of them rewritten by an Update,
\* and a created one.
C14_Witness ==
    /\ Len(products_db) = 4
    /\ DictGet(products_db, 1).name = "Widget"
    /\ DictGet(products_db, 2).name = "Cotton T-Shirt"
    /\ DictHas(products_db, 6)

Done(i) == inflight[i].pc = "done"

\* The Delete requests for id received while id was in the store.
DeletesOf(id) ==
    {i \in DOMAIN inflight :
        /\ inflight[i].op = "delete_product"
        /\ inflight[i].id = id
        /\ inflight[i].existed}

\* C15: under every interleaving of concurrent requests each request acts
\* atomically on the store: of the Deletes in flight together for one
\* existing identifier exactly one is answered 204 and every other 404, no
\* request fails with a server error, and once a Delete of an identifier has
\* succeeded no Update racing with it (answered 404 or not) leaves a record
\* for that identifier in the store.
C15_RequestsAreAtomic ==
    /\ \A i \in DOMAIN inflight :
          Done(i) => inflight[i].status \in {200, 204, 404, 422}
    /\ \A id \in {inflight[i].id : i \in DOMAIN inflight} :
          LET D == DeletesOf(id)
          IN  (D # {} /\ \A i \in D : Done(i))
                 => /\ Cardinality({i \in D : inflight[i].status = 204}) = 1
                    /\ \A i \in D : inflight[i].status \in {204, 404}
    /\ \A i, j \in DOMAIN inflight :
          (/\ inflight[i].op = "update_product"
           /\ inflight[j].op = "delete_product"
           /\ inflight[i].id = inflight[j].id
           /\ Done(i) /\ Done(j)
           /\ inflight[j].status = 204)
             => ~DictHas(products_db, inflight[j].id)

\* Two Deletes of the same product, both received while it was in the store,
\* have been answered: one 204, the other 404.
C15_Witness ==
    /\ Len(inflight) >= 2
    /\ inflight[1].op = "delete_product" /\ inflight[2].op = "delete_product"
    /\ inflight[1].id = 1 /\ inflight[2].id = 1
    /\ inflight[1].existed /\ inflight[2].existed
    /\ Done(1) /\ Done(2)
    /\ inflight[1].status = 404
    /\ inflight[2].status = 204

\* An Update racing with a Delete of the same product, both received while
\* it was in the store, has been answered 404 after the Delete succeeded.
C15_WitnessUpdateLoses ==
    /\ Len(inflight) >= 2
    /\ inflight[1].op = "update_product" /\ inflight[2].op = "delete_product"
    /\ inflight[1].id = 1 /\ inflight[2].id = 1
    /\ inflight[1].existed /\ inflight[2].existed
    /\ Done(1) /\ Done(2)
    /\ inflight[1].status = 404
    /\ inflight[2].status = 204

====
